---- MODULE Spec2Model ----
(***************************************************************************)
(* The Pratt (operator precedence) parsing engine of src/src/pratt.rs.     *)
(*                                                                         *)
(* One behaviour parses one input with one operator collection, once per   *)
(* driver (the tuple driver Pratt::pratt_go, the dynamic-list driver       *)
(* pratt_go_slice) and per execution mode (Emit, Check).  The recursion of *)
(* the drivers is an explicit stack of frames; every operator attempt is   *)
(* one step.                                                               *)
(***************************************************************************)
EXTENDS Integers, Sequences, FiniteSets, TLC

\* Longest input (in tokens) that is enumerated exhaustively.
MaxLen == 5
\* Longest infix chain (in operators) among the inputs.
MaxChain == 4

(***************************************************************************)
(* Associativity and binding powers                                        *)
(***************************************************************************)
Left(x) == [assoc |-> "Left", power |-> x]
Right(x) == [assoc |-> "Right", power |-> x]

left(binding_power) == Left(binding_power)
right(binding_power) == Right(binding_power)

\* A right_power that is always one more than left_power.
right_power_succ(a) ==
    IF a.assoc = "Left" THEN a.power * 2 + 1 ELSE a.power * 2 + 2

\* A right_power that forgets the increment of a left-associative operator.
right_power_even(a) == a.power * 2

\* The greatest u16: binding powers are 0..U16Max.
U16Max == 65535

\* Arithmetic in u32 keeps the low 32 bits (v is below 2^31 here): the high
\* half is taken modulo 2^16.
wrapping_u32(v) == ((v \div 65536) % 65536) * 65536 + (v % 65536)

\* A left_power that forgets the increment of a right-associative operator.
left_power_even(a) == a.power * 2

\* A left_power that doubles in u16 and widens afterwards.
left_power_u16(a) ==
    IF a.assoc = "Left" THEN (a.power * 2) % 65536 ELSE (a.power * 2 + 1) % 65536

\* `*x as u32 * 2 (+ 1)`: the u16 power is widened to u32 before it is doubled.
left_power(a) ==
    IF a.assoc = "Left" THEN wrapping_u32(a.power * 2)
    ELSE wrapping_u32(wrapping_u32(a.power * 2) + 1)

right_power(a) ==
    IF a.assoc = "Left" THEN wrapping_u32(wrapping_u32(a.power * 2) + 1)
    ELSE wrapping_u32(a.power * 2)

(***************************************************************************)
(* Operator definitions.  op_parser is just(tok); the fold function of the *)
(* operator declared at index i builds a node tagged with i, so that the   *)
(* folded value tells which operator was applied to what.                  *)
(***************************************************************************)
infix(assoc, tok) == [kind |-> "infix", associativity |-> assoc, tok |-> tok]
prefix(binding_power, tok) ==
    [kind |-> "prefix", binding_power |-> binding_power, tok |-> tok]
postfix(binding_power, tok) ==
    [kind |-> "postfix", binding_power |-> binding_power, tok |-> tok]

is_infix(op) == op.kind = "infix"
is_prefix(op) == op.kind = "prefix"
is_postfix(op) == op.kind = "postfix"

associativity(op) ==
    IF op.kind = "infix" THEN op.associativity ELSE Left(op.binding_power)

(***************************************************************************)
(* Values.  Emit builds trees, Check carries the unit value.  A node keeps *)
(* the declaration index of its operator and the offset of its token.      *)
(***************************************************************************)
Unit == <<>>
Lit(p) == <<"lit", p>>
Un(i, p, x) == <<"un", i, p, x>>
Bin(i, p, l, r) == <<"bin", i, p, l, r>>

\* Mode::combine / Mode::bind: Emit materialises the value, Check does not.
Combine(mode, v) == IF mode = "Emit" THEN v ELSE Unit

Drivers == {"tuple", "slice"}
Modes == {"Emit", "Check"}
Runs == <<[driver |-> "tuple", mode |-> "Emit"],
          [driver |-> "tuple", mode |-> "Check"],
          [driver |-> "slice", mode |-> "Emit"],
          [driver |-> "slice", mode |-> "Check"]>>

(***************************************************************************)
(* Inputs: operator collections and token sequences                        *)
(***************************************************************************)
RECURSIVE SeqsUpTo(_, _)
SeqsUpTo(S, n) ==
    IF n = 0 THEN {<<>>}
    ELSE LET shorter == SeqsUpTo(S, n - 1)
         IN  shorter \cup {Append(s, t) : s \in {x \in shorter : Len(x) = n - 1}, t \in S}

\* The tokens of the infix operators of a collection.
InfixToks(c) == {c[k].tok : k \in {j \in 1..Len(c) : c[j].kind = "infix"}}

\* Operand (operator operand)*, with up to n operators drawn from T.
RECURSIVE ChainsUpTo(_, _)
ChainsUpTo(T, n) ==
    IF n = 0 THEN {<<"n">>}
    ELSE LET shorter == ChainsUpTo(T, n - 1)
         IN  shorter \cup {s \o <<t, "n">> : s \in {x \in shorter : Len(x) = 2 * n - 1}, t \in T}

\* Two infix operators over "+" and "*", every associativity, powers 0 and 1.
InfixPairs ==
    { <<infix(a, "+"), infix(b, "*")>> :
        a \in {left(0), right(0), left(1), right(1)},
        b \in {left(0), right(0), left(1), right(1)} }

\* A prefix and a postfix operator, in both declaration orders.
UnaryPairs ==
    { <<prefix(p, "-"), postfix(q, "!")>> : p \in 0..2, q \in 0..2 }
    \cup { <<postfix(q, "!"), prefix(p, "-")>> : p \in 0..2, q \in 0..2 }

\* A postfix and an infix operator.
PostfixInfix ==
    { <<postfix(q, "!"), infix(a, "+")>> : q \in 0..1, a \in {left(0), right(1)} }

\* Operators that share a token.
Overlapping ==
    { <<postfix(1, "!"), postfix(0, "!"), infix(left(0), "+")>>,
      <<infix(left(0), "+"), infix(left(1), "+"), postfix(0, "!")>>,
      <<infix(right(1), "+"), infix(left(0), "+"), postfix(0, "!")>>,
      <<infix(left(0), "!"), postfix(0, "!"), infix(left(1), "+")>>,
      <<prefix(0, "+"), prefix(1, "+"), infix(left(0), "+")>> }

\* The operator kinds together, as in tests::parser.
Mixed ==
    { <<prefix(2, "-"), postfix(2, "!"), infix(left(0), "+"), infix(left(1), "*")>> }

Collections == InfixPairs \cup UnaryPairs \cup PostfixInfix \cup Overlapping \cup Mixed

\* The tokens of a collection, and the literal.
Alphabet(c) == {"n"} \cup {c[k].tok : k \in 1..Len(c)}

\* The inputs of a collection: every token sequence up to MaxLen, and the
\* longer infix chains.
Inputs(c) == SeqsUpTo(Alphabet(c), MaxLen) \cup ChainsUpTo(InfixToks(c), MaxChain)

VARIABLES
    ops,      \* the operator collection, in declaration order
    input,    \* the token sequence; offset p holds input[p + 1]
    todo,     \* the runs (driver, mode) still to do; the head is the current one
    phase,    \* "idle" | "running" | "done"
    pos,      \* the input cursor (an offset)
    stack,    \* the frames of pratt_go / pratt_go_slice, innermost last
    ret,      \* the result of the call that returned last, until it is consumed
    results,  \* the outcome of each finished run
    log,      \* the operator attempts of the current run, in order
    att       \* the attempt handled last: where it started, how it ended

vars == <<ops, input, todo, phase, pos, stack, ret, results, log, att>>

N == Len(ops)
driver == Head(todo).driver
mode == Head(todo).mode
Top == stack[Len(stack)]

NoRet == [st |-> "none", val |-> Unit]
\* d: the driver; kind, op: the role and the declaration index of the operator
\* mp: the min_power of the call; start: the offset the attempt started at
\* tok: its operator token matched; ok: the attempt succeeded
\* after: the offset once the driver has handled the outcome
\* lhs0, lhs1: the driver's lhs before the attempt and after it
NoAtt == [d |-> "none", kind |-> "none", op |-> 0, mp |-> 0, start |-> 0, tok |-> FALSE, ok |-> TRUE,
          after |-> 0, lhs0 |-> Unit, lhs1 |-> Unit]

(***************************************************************************)
(* The sub-parsers the engine is given                                     *)
(***************************************************************************)
\* just(tok): takes the next token, if any, and compares it.
JustGo(tok, p) ==
    IF p >= Len(input) THEN [ok |-> FALSE, pos |-> p]
    ELSE [ok |-> input[p + 1] = tok, pos |-> p + 1]

\* A parser that succeeds without taking a token (empty(), x.or_not(), ...).
Eps == "eps"
EmptyGo(p) == [ok |-> TRUE, pos |-> p]

\* self.op_parser.go::<M>(inp): the operator parser is any parser; the
\* operators here hold just(tok) or a parser that can succeed on nothing.
op_parser_go(tok, p) == IF tok = Eps THEN EmptyGo(p) ELSE JustGo(tok, p)

\* The atom parser: one literal token.
AtomGo(m, p) ==
    IF p >= Len(input) THEN [ok |-> FALSE, pos |-> p, val |-> Unit]
    ELSE [ok |-> input[p + 1] = "n", pos |-> p + 1, val |-> Combine(m, Lit(p))]

(***************************************************************************)
(* Frames of the driver                                                    *)
(***************************************************************************)
\* pc: "operand"      trying prefix operators from index i, then the atom
\*     "prefix_wait"  operator i took its token and waits for its operand
\*     "postfix"      continuation loop, trying postfix operators from index i
\*     "infix"        continuation loop, trying infix operators from index i
\*     "infix_wait"   operator i took its token and waits for its right operand
\* at is the offset at which the pending attempt started, opv the offset of
\* the operator token it matched.
NewFrame(min_power, p) ==
    [min_power |-> min_power, pre_expr |-> p, pre_op |-> p, lhs |-> Unit,
     pc |-> "operand", i |-> 1, at |-> p, opv |-> p]

Min(S) == CHOOSE x \in S : \A y \in S : x <= y
First(S) == IF S = {} THEN N + 1 ELSE Min(S)

\* An infix test that forgets the threshold.
InfixEligible_any(op, min_power) == is_infix(op)

PostfixEligible(op, min_power) ==
    is_postfix(op) /\ right_power(associativity(op)) >= min_power

InfixEligible(op, min_power) ==
    is_infix(op) /\ left_power(associativity(op)) >= min_power

\* A prefix loop that tests the threshold as the other two loops do.
NextPrefix_above(i) ==
    First({j \in i..N : is_prefix(ops[j])
                        /\ left_power(associativity(ops[j])) >= Top.min_power})

NextPrefix(i) == First({j \in i..N : is_prefix(ops[j])})
NextPostfix(i, min_power) == First({j \in i..N : PostfixEligible(ops[j], min_power)})
NextInfix(i, min_power) == First({j \in i..N : InfixEligible(ops[j], min_power)})

\* The postfix loop that finds no further candidate falls through to the
\* infix loop, which starts again at the first operator.
Norm(f) ==
    IF f.pc = "postfix" /\ NextPostfix(f.i, f.min_power) > N
    THEN [f EXCEPT !.pc = "infix", !.i = 1]
    ELSE f

\* The top of the continuation loop: let pre_op = inp.save().
EnterLoop(f, lhs, p) ==
    Norm([f EXCEPT !.lhs = lhs, !.pre_op = p, !.pc = "postfix", !.i = 1])

\* inp.rewind(checkpoint)
Rewind(checkpoint) == checkpoint

\* A failed prefix attempt that leaves the cursor where it is.
OnPrefixErr_stay(f) == pos

\* Err(()) => inp.rewind(pre_expr.clone()), after a failed prefix attempt
OnPrefixErr(f) == Rewind(f.pre_expr)

\* A failed postfix or infix attempt that leaves the cursor where it is.
OnOpErr_stay(f) == pos

\* Err(out) => { lhs = out; inp.rewind(pre_op.clone()) }, after a failed
\* postfix or infix attempt
OnOpErr(f) == Rewind(f.pre_op)

\* inp.rewind(pre_op); break
OnLoopExit(f) == Rewind(f.pre_op)

(***************************************************************************)
(* The operators' parse functions                                          *)
(***************************************************************************)
\* Postfix::do_parse_postfix: Ok(fold(lhs, op)) or Err(lhs)
do_parse_postfix(m, op, i, lhs, p) ==
    LET r == op_parser_go(op.tok, p)
    IN  IF r.ok
        THEN [ok |-> TRUE, val |-> Combine(m, Un(i, p, lhs)), pos |-> r.pos]
        ELSE [ok |-> FALSE, val |-> lhs, pos |-> r.pos]

\* A check entry that never matches.
do_parse_postfix_check_never(op, i, lhs, p) == [ok |-> FALSE, val |-> lhs, pos |-> p]

do_parse_postfix_check(op, i, lhs, p) == do_parse_postfix("Check", op, i, lhs, p)
do_parse_postfix_emit(op, i, lhs, p) == do_parse_postfix("Emit", op, i, lhs, p)

\* Boxed::do_parse_postfix: the mode picks the check or the emit entry.
Boxed_do_parse_postfix(m, op, i, lhs, p) ==
    IF m = "Check" THEN do_parse_postfix_check(op, i, lhs, p)
    ELSE do_parse_postfix_emit(op, i, lhs, p)

\* The tuple holds the operators themselves, the list holds boxed operators.
ParsePostfix(d, m, op, i, lhs, p) ==
    IF d = "slice" THEN Boxed_do_parse_postfix(m, op, i, lhs, p)
    ELSE do_parse_postfix(m, op, i, lhs, p)

\* Prefix::do_parse_prefix, its two halves around the call of f:
\* the operator token and the threshold handed to f, then the fold.
prefix_power(op) == left_power(associativity(op))
prefix_fold(m, i, opv, rhs) == Combine(m, Un(i, opv, rhs))

\* Infix::do_parse_infix, likewise.
infix_power(op) == right_power(associativity(op))
infix_fold(m, i, opv, lhs, rhs) == Combine(m, Bin(i, opv, lhs, rhs))

(***************************************************************************)
(* The driver, one step per operator attempt                               *)
(***************************************************************************)
SetTop(f) == [stack EXCEPT ![Len(stack)] = f]
Pop == SubSeq(stack, 1, Len(stack) - 1)

Running == phase = "running" /\ stack # <<>>

\* After a postfix operator succeeded: `continue`.  In the tuple driver the
\* statement stands in the body of the outer loop; in the list driver it
\* stands in `for op in ops` and continues that loop.
AfterPostfixOk(d, f, j, out, p) ==
    IF d = "tuple" THEN EnterLoop(f, out, p)
    ELSE Norm([f EXCEPT !.lhs = out, !.i = j + 1])

\* A prefix operator is tried: its token, then the call for its operand.
PrefixAttempt ==
    /\ Running /\ ret.st = "none" /\ Top.pc = "operand"
    /\ NextPrefix(Top.i) <= N
    /\ LET j == NextPrefix(Top.i)
           r == op_parser_go(ops[j].tok, pos)
       IN  /\ log' = Append(log, <<"prefix", j, pos>>)
           /\ IF r.ok
              THEN /\ stack' = Append(SetTop([Top EXCEPT !.pc = "prefix_wait", !.i = j,
                                                         !.at = pos, !.opv = pos]),
                                      NewFrame(prefix_power(ops[j]), r.pos))
                   /\ pos' = r.pos
                   /\ att' = att
              ELSE /\ stack' = SetTop([Top EXCEPT !.i = j + 1])
                   /\ pos' = OnPrefixErr(Top)
                   /\ att' = [d |-> driver, kind |-> "prefix", op |-> j, mp |-> Top.min_power,
                              start |-> pos, tok |-> FALSE, ok |-> FALSE, after |-> pos',
                              lhs0 |-> Unit, lhs1 |-> Unit]
    /\ UNCHANGED <<ops, input, todo, phase, ret, results>>

\* The operand of a prefix operator came back.
PrefixReturn ==
    /\ Running /\ ret.st # "none" /\ Top.pc = "prefix_wait"
    /\ IF ret.st = "ok"
       THEN /\ stack' = SetTop(EnterLoop(Top, prefix_fold(mode, Top.i, Top.opv, ret.val), pos))
            /\ pos' = pos
       ELSE /\ stack' = SetTop([Top EXCEPT !.pc = "operand", !.i = Top.i + 1])
            /\ pos' = OnPrefixErr(Top)
    /\ att' = [d |-> driver, kind |-> "prefix", op |-> Top.i, mp |-> Top.min_power, start |-> Top.at,
               tok |-> TRUE, ok |-> ret.st = "ok", after |-> pos',
               lhs0 |-> Unit, lhs1 |-> IF ret.st = "ok" THEN stack'[Len(stack')].lhs ELSE Unit]
    /\ ret' = NoRet
    /\ UNCHANGED <<ops, input, todo, phase, results, log>>

\* No prefix operator is left: self.atom.go::<M>(inp)?
AtomStep ==
    /\ Running /\ ret.st = "none" /\ Top.pc = "operand"
    /\ NextPrefix(Top.i) > N
    /\ LET r == AtomGo(mode, pos)
       IN  /\ pos' = r.pos
           /\ IF r.ok
              THEN /\ stack' = SetTop(EnterLoop(Top, r.val, r.pos))
                   /\ ret' = ret
              ELSE /\ stack' = Pop
                   /\ ret' = [st |-> "err", val |-> Unit]
    /\ log' = Append(log, <<"atom", 0, pos>>)
    /\ UNCHANGED <<ops, input, todo, phase, results, att>>

\* A postfix operator at or above the threshold is tried.
PostfixAttempt ==
    /\ Running /\ ret.st = "none" /\ Top.pc = "postfix"
    /\ NextPostfix(Top.i, Top.min_power) <= N
    /\ LET j == NextPostfix(Top.i, Top.min_power)
           r == ParsePostfix(driver, mode, ops[j], j, Top.lhs, pos)
       IN  /\ log' = Append(log, <<"postfix", j, pos>>)
           /\ IF r.ok
              THEN /\ stack' = SetTop(AfterPostfixOk(driver, Top, j, r.val, r.pos))
                   /\ pos' = r.pos
              ELSE /\ stack' = SetTop(Norm([Top EXCEPT !.lhs = r.val, !.i = j + 1]))
                   /\ pos' = OnOpErr(Top)
           /\ att' = [d |-> driver, kind |-> "postfix", op |-> j, mp |-> Top.min_power, start |-> pos,
                      tok |-> r.ok, ok |-> r.ok, after |-> pos',
                      lhs0 |-> Top.lhs, lhs1 |-> r.val]
    /\ UNCHANGED <<ops, input, todo, phase, ret, results>>

\* An infix operator at or above the threshold is tried: its token, then
\* the call for its right operand.
InfixAttempt ==
    /\ Running /\ ret.st = "none" /\ Top.pc = "infix"
    /\ NextInfix(Top.i, Top.min_power) <= N
    /\ LET j == NextInfix(Top.i, Top.min_power)
           r == op_parser_go(ops[j].tok, pos)
       IN  /\ log' = Append(log, <<"infix", j, pos>>)
           /\ IF r.ok
              THEN /\ stack' = Append(SetTop([Top EXCEPT !.pc = "infix_wait", !.i = j,
                                                         !.at = pos, !.opv = pos]),
                                      NewFrame(infix_power(ops[j]), r.pos))
                   /\ pos' = r.pos
                   /\ att' = att
              ELSE /\ stack' = SetTop([Top EXCEPT !.i = j + 1])
                   /\ pos' = OnOpErr(Top)
                   /\ att' = [d |-> driver, kind |-> "infix", op |-> j, mp |-> Top.min_power,
                              start |-> pos, tok |-> FALSE, ok |-> FALSE, after |-> pos',
                              lhs0 |-> Top.lhs, lhs1 |-> Top.lhs]
    /\ UNCHANGED <<ops, input, todo, phase, ret, results>>

\* The right operand of an infix operator came back.
InfixReturn ==
    /\ Running /\ ret.st # "none" /\ Top.pc = "infix_wait"
    /\ IF ret.st = "ok"
       THEN /\ stack' = SetTop(EnterLoop(Top, infix_fold(mode, Top.i, Top.opv, Top.lhs, ret.val),
                                         pos))
            /\ pos' = pos
       ELSE /\ stack' = SetTop([Top EXCEPT !.pc = "infix", !.i = Top.i + 1])
            /\ pos' = OnOpErr(Top)
    /\ att' = [d |-> driver, kind |-> "infix", op |-> Top.i, mp |-> Top.min_power, start |-> Top.at,
               tok |-> TRUE, ok |-> ret.st = "ok", after |-> pos',
               lhs0 |-> Top.lhs, lhs1 |-> stack'[Len(stack')].lhs]
    /\ ret' = NoRet
    /\ UNCHANGED <<ops, input, todo, phase, results, log>>

\* Nothing matched: inp.rewind(pre_op); break; Ok(lhs)
LoopExit ==
    /\ Running /\ ret.st = "none" /\ Top.pc = "infix"
    /\ NextInfix(Top.i, Top.min_power) > N
    /\ pos' = OnLoopExit(Top)
    /\ ret' = [st |-> "ok", val |-> Top.lhs]
    /\ stack' = Pop
    /\ UNCHANGED <<ops, input, todo, phase, results, log, att>>

\* ParserSealed::go returned: the outcome of the run is kept and the next
\* run starts on the same input, go calling the driver with min_power 0.
Finish ==
    /\ phase = "running" /\ stack = <<>> /\ ret.st # "none"
    /\ results' = [results EXCEPT ![<<driver, mode>>] =
                      [st |-> ret.st, val |-> ret.val, pos |-> pos, log |-> log]]
    /\ todo' = Tail(todo)
    /\ phase' = IF Tail(todo) = <<>> THEN "done" ELSE "running"
    /\ stack' = IF Tail(todo) = <<>> THEN <<>> ELSE <<NewFrame(0, 0)>>
    /\ pos' = 0
    /\ ret' = NoRet
    /\ log' = <<>>
    /\ att' = NoAtt
    /\ UNCHANGED <<ops, input>>

Pending == [st |-> "pending", val |-> Unit, pos |-> 0, log |-> <<>>]

Init ==
    /\ ops \in Collections
    /\ input \in Inputs(ops)
    /\ todo = Runs
    /\ phase = "running"
    /\ pos = 0
    /\ stack = <<NewFrame(0, 0)>>
    /\ ret = NoRet
    /\ results = [r \in Drivers \X Modes |-> Pending]
    /\ log = <<>>
    /\ att = NoAtt

Next ==
    \/ PrefixAttempt
    \/ PrefixReturn
    \/ AtomStep
    \/ PostfixAttempt
    \/ InfixAttempt
    \/ InfixReturn
    \/ LoopExit
    \/ Finish

Spec == Init /\ [][Next]_vars

(***************************************************************************)
(* Operator parsers that can succeed without taking input.  A parse need   *)
(* not end, so a run is followed for MaxSteps attempts only.               *)
(***************************************************************************)
\* Longest input of the collections with such an operator.
MaxEpsLen == 3
\* Attempts (operator or atom) after which a run is no longer followed.
MaxSteps == 10

EpsCollections ==
    { <<postfix(0, Eps), infix(left(0), "+"), prefix(0, "-")>>,
      <<prefix(1, "-"), postfix(1, "!"), infix(right(0), "+"), postfix(0, Eps)>>,
      <<prefix(0, Eps), infix(left(0), "+"), postfix(0, "!")>>,
      <<infix(left(0), Eps), postfix(1, "!"), prefix(1, "-")>> }

EpsInputs(c) == SeqsUpTo(Alphabet(c) \ {Eps}, MaxEpsLen)

InitEps ==
    /\ ops \in EpsCollections
    /\ input \in EpsInputs(ops)
    /\ todo = Runs
    /\ phase = "running"
    /\ pos = 0
    /\ stack = <<NewFrame(0, 0)>>
    /\ ret = NoRet
    /\ results = [r \in Drivers \X Modes |-> Pending]
    /\ log = <<>>
    /\ att = NoAtt

Followed == Len(log) < MaxSteps

NextEps ==
    \/ Followed /\ PrefixAttempt
    \/ Followed /\ PrefixReturn
    \/ Followed /\ AtomStep
    \/ Followed /\ PostfixAttempt
    \/ Followed /\ InfixAttempt
    \/ Followed /\ InfixReturn
    \/ Followed /\ LoopExit
    \/ Followed /\ Finish

SpecEps == InitEps /\ [][NextEps]_vars

(***************************************************************************)
(* Properties                                                              *)
(***************************************************************************)
Res(d, m) == results[<<d, m>>]
Parsed(d) == Res(d, "Emit").st # "pending"
Done == phase = "done"
Ok(v, p) == [st |-> "ok", val |-> v, pos |-> p]

\* The outcome of a run, without its log.
Outcome(d, m) == [st |-> Res(d, m).st, val |-> Res(d, m).val, pos |-> Res(d, m).pos]

\* The value an Emit parse produced; a failed parse produces none.
Value(d) == IF Res(d, "Emit").st = "ok" THEN Res(d, "Emit").val ELSE <<"none">>

\* No other operator of the collection has the token of operator a.
OwnToken(a) == \A k \in 1..N : k # a => ops[k].tok # ops[a].tok

InfixOps == {a \in 1..N : is_infix(ops[a]) /\ OwnToken(a)}
Power(a) == associativity(ops[a]).power

\* The input is operand (operator operand)+, the operators being infix
\* operators of the collection.
IsChain ==
    /\ Len(input) >= 3 /\ Len(input) % 2 = 1
    /\ \A k \in 1..Len(input) :
         IF k % 2 = 1 THEN input[k] = "n"
         ELSE \E a \in InfixOps : ops[a].tok = input[k]

\* The infix operator whose token stands at offset p of a chain.
OpAt(p) == CHOOSE a \in InfixOps : ops[a].tok = input[p + 1]

\* Every operator of the chain has the associativity assoc and the same power.
UniformChain(assoc) ==
    /\ IsChain
    /\ \A k \in 1..Len(input) : k % 2 = 0 =>
         /\ associativity(ops[OpAt(k - 1)]).assoc = assoc
         /\ Power(OpAt(k - 1)) = Power(OpAt(1))

\* op_k(... op_2(op_1(a, b), c) ..., z): the fold of the first k operators.
RECURSIVE LeftFold(_)
LeftFold(k) ==
    IF k = 0 THEN Lit(0)
    ELSE Bin(OpAt(2 * k - 1), 2 * k - 1, LeftFold(k - 1), Lit(2 * k))

\* op(a, op'(b, ...)): the fold of the chain from the operand at offset p on.
RECURSIVE RightFold(_)
RightFold(p) ==
    IF p >= Len(input) - 1 THEN Lit(p)
    ELSE Bin(OpAt(p + 1), p + 1, Lit(p), RightFold(p + 2))

\* C1: for infix operators A of lower and B of strictly higher declared
\* power, of any associativity, "x A y B z" is parsed as A(x, B(y, z)) and
\* "x B y A z" as A(B(x, y), z).
C1_Precedence ==
    \A d \in Drivers : Parsed(d) =>
      \A a, b \in InfixOps : Power(a) < Power(b) =>
        /\ input = <<"n", ops[a].tok, "n", ops[b].tok, "n">> =>
             Outcome(d, "Emit") = Ok(Bin(a, 1, Lit(0), Bin(b, 3, Lit(2), Lit(4))), 5)
        /\ input = <<"n", ops[b].tok, "n", ops[a].tok, "n">> =>
             Outcome(d, "Emit") = Ok(Bin(a, 3, Bin(b, 1, Lit(0), Lit(2)), Lit(4)), 5)

\* "x B y A z" with a right-associative A below a left-associative B has been
\* parsed by both drivers, B folded first.
C1_Witness ==
    /\ Done
    /\ \E a, b \in InfixOps :
         /\ Power(a) < Power(b)
         /\ associativity(ops[a]).assoc = "Right" /\ associativity(ops[b]).assoc = "Left"
         /\ input = <<"n", ops[b].tok, "n", ops[a].tok, "n">>
         /\ \A d \in Drivers : Res(d, "Emit").val = Bin(a, 3, Bin(b, 1, Lit(0), Lit(2)), Lit(4))

\* C2: a chain of left-associative infix operators of one declared power
\* folds left to right, whatever its length: the right operand of an operator
\* never takes in the operator that follows.
C2_LeftChain ==
    \A d \in Drivers : (Parsed(d) /\ UniformChain("Left")) =>
        Outcome(d, "Emit") = Ok(LeftFold((Len(input) - 1) \div 2), Len(input))

\* A chain of three left-associative operators, two of them distinct, has
\* been parsed.
C2_Witness ==
    /\ Done /\ UniformChain("Left") /\ Len(input) = 7
    /\ OpAt(1) # OpAt(3)
    /\ Res("slice", "Emit").val = LeftFold(3)

\* C3: a chain of right-associative infix operators of one declared power
\* folds right to left, whatever its length.
C3_RightChain ==
    \A d \in Drivers : (Parsed(d) /\ UniformChain("Right")) =>
        Outcome(d, "Emit") = Ok(RightFold(0), Len(input))

\* A chain of three right-associative operators, two of them distinct, has
\* been parsed.
C3_Witness ==
    /\ Done /\ UniformChain("Right") /\ Len(input) = 7
    /\ OpAt(1) # OpAt(3)
    /\ Res("tuple", "Emit").val = RightFold(0)

\* C4: around one operand, a postfix operator of strictly higher power than
\* the prefix operator is folded first, "-2!" = -(2!); one of lower power is
\* folded last, "-2!" = (-2)!.
C4_PrefixPostfix ==
    \A d \in Drivers : Parsed(d) =>
      \A a, b \in 1..N :
        (/\ is_prefix(ops[a]) /\ is_postfix(ops[b]) /\ OwnToken(a) /\ OwnToken(b)
         /\ input = <<ops[a].tok, "n", ops[b].tok>>) =>
          /\ ops[b].binding_power > ops[a].binding_power =>
               Value(d) = Un(a, 0, Un(b, 2, Lit(1)))
          /\ ops[b].binding_power < ops[a].binding_power =>
               Value(d) = Un(b, 2, Un(a, 0, Lit(1)))

\* The same, of the tuple driver alone.
PrefixPostfix_TupleDriver ==
    Parsed("tuple") =>
      \A a, b \in 1..N :
        (/\ is_prefix(ops[a]) /\ is_postfix(ops[b]) /\ OwnToken(a) /\ OwnToken(b)
         /\ input = <<ops[a].tok, "n", ops[b].tok>>) =>
          /\ ops[b].binding_power > ops[a].binding_power =>
               Value("tuple") = Un(a, 0, Un(b, 2, Lit(1)))
          /\ ops[b].binding_power < ops[a].binding_power =>
               Value("tuple") = Un(b, 2, Un(a, 0, Lit(1)))

\* Operator i is a candidate of the role kind in a call with threshold mp.
Candidate(i, kind, mp) ==
    CASE kind = "prefix" -> is_prefix(ops[i])
      [] kind = "postfix" -> PostfixEligible(ops[i], mp)
      [] kind = "infix" -> InfixEligible(ops[i], mp)
      [] OTHER -> FALSE

\* An operator declared before the one att is about is a candidate of the
\* same role and call, and its token stands where that attempt started.
EarlierMatches ==
    \E i \in 1..(att.op - 1) :
        /\ Candidate(i, att.kind, att.mp)
        /\ att.start < Len(input) /\ input[att.start + 1] = ops[i].tok

\* C5: of the operators that can match the token at one position, the one
\* declared first wins: when the fold of an operator has been applied at a
\* position, no operator declared before it (of its role, at or above the
\* threshold) matches the token there.
C5_DeclarationOrder == (att.kind # "none" /\ att.ok) => ~EarlierMatches

\* The same, of the tuple driver alone.
DeclarationOrder_TupleDriver ==
    (att.d = "tuple" /\ att.kind # "none" /\ att.ok) => ~EarlierMatches

\* Some prefix operator parses at offset p, or the atom does: the token is
\* the literal, or the token of a prefix operator whose operand parses.
RECURSIVE OperandOk(_)
OperandOk(p) ==
    /\ p < Len(input)
    /\ \/ input[p + 1] = "n"
       \/ /\ \E a \in 1..N : is_prefix(ops[a]) /\ ops[a].tok = input[p + 1]
          /\ OperandOk(p + 1)

\* C6: a call of the driver fails exactly when no prefix operator parses at
\* its starting position and the atom fails there; the atom is attempted at
\* pre_expr; a call that has its first operand returns success.
C6_FailsOnlyAtOperand ==
    [][ /\ (Running /\ Len(stack') < Len(stack)) =>
             /\ (ret'.st = "err") <=> ~OperandOk(Top.pre_expr)
             /\ (ret'.st = "err") => (Top.pc = "operand" /\ NextPrefix(Top.i) > N)
             /\ (Top.pc # "operand") => (ret'.st = "ok")
        /\ AtomStep => (pos = Top.pre_expr)
      ]_vars

\* A call failed at the atom after a prefix operator had taken its token and
\* its operand had failed.
C6_Witness ==
    /\ phase = "running" /\ stack = <<>> /\ ret.st = "err"
    /\ att.kind = "prefix" /\ att.tok /\ ~att.ok
    /\ log[Len(log)] = <<"atom", 0, 0>>

\* C7: an infix operator whose token matched and whose right operand failed
\* is a no-match: lhs is kept, the fold is not applied, the input is back
\* before the operator token; "1+" parsed lazily gives 1 at offset 1.
C7_InfixOperandFailure ==
    /\ (att.kind = "infix" /\ att.tok /\ ~att.ok) =>
         (att.lhs1 = att.lhs0 /\ att.after = att.start)
    /\ \A d \in Drivers : Parsed(d) =>
         \A a \in InfixOps : input = <<"n", ops[a].tok>> =>
             Outcome(d, "Emit") = Ok(Lit(0), 1)

\* The same, of the tuple driver alone.
InfixOperandFailure_TupleDriver ==
    /\ (att.d = "tuple" /\ att.kind = "infix" /\ att.tok /\ ~att.ok) =>
         (att.lhs1 = att.lhs0 /\ att.after = att.start)
    /\ Parsed("tuple") =>
         \A a \in InfixOps : input = <<"n", ops[a].tok>> =>
             Outcome("tuple", "Emit") = Ok(Lit(0), 1)

\* C8: the dynamic-list driver and the tuple driver give the same outcome,
\* the same value and the same final input position.
C8_DriversAgree ==
    \A m \in Modes :
        (Res("tuple", m).st # "pending" /\ Res("slice", m).st # "pending") =>
            Outcome("tuple", m) = Outcome("slice", m)

\* C9: in each driver, the Check parse succeeds exactly when the Emit parse
\* does, attempts the same operators at the same offsets in the same order
\* and ends at the same offset; Check carries no value.
C9_CheckLikeEmit ==
    \A d \in Drivers :
        (Res(d, "Emit").st # "pending" /\ Res(d, "Check").st # "pending") =>
            /\ Res(d, "Check").st = Res(d, "Emit").st
            /\ Res(d, "Check").pos = Res(d, "Emit").pos
            /\ Res(d, "Check").log = Res(d, "Emit").log
            /\ Res(d, "Check").val = Unit

\* Both modes of the list driver have parsed an input on which a postfix
\* operator was applied and an attempt was rewound.
C9_Witness ==
    /\ Done
    /\ Res("slice", "Check").st = "ok" /\ Res("slice", "Emit").st = "ok"
    /\ Res("slice", "Emit").val[1] = "un"
    /\ \E k \in 1..Len(Res("slice", "Check").log) : Res("slice", "Check").log[k][1] = "postfix"
    /\ Res("slice", "Emit").val # Res("slice", "Check").val

\* C10: once the driver has handled a failed attempt (prefix, postfix or
\* infix), the input is at the offset where that attempt started.
C10_FailedAttemptRewinds ==
    (att.kind # "none" /\ ~att.ok) => att.after = att.start

\* The same, of the tuple driver alone.
FailedAttemptRewinds_TupleDriver ==
    (att.d = "tuple" /\ att.kind # "none" /\ ~att.ok) => att.after = att.start

(***************************************************************************)
(* Binding powers over the whole u16 range                                 *)
(***************************************************************************)
\* Powers 0..MaxPower are taken together with the middle and the top of u16.
MaxPower == 1
PowerSample == (0..MaxPower) \cup {32767, 32768, U16Max - 1, U16Max}

PowerCollections ==
    { <<infix(a, "+"), infix(b, "*")>> :
        a \in {left(p) : p \in PowerSample} \cup {right(p) : p \in PowerSample},
        b \in {left(p) : p \in PowerSample} \cup {right(p) : p \in PowerSample} }
    \cup { <<prefix(p, "-"), postfix(q, "!")>> : p \in PowerSample, q \in PowerSample }

\* Longest input of these collections; their chains have one operator less.
MaxPowerLen == 3
PowerInputs(c) ==
    SeqsUpTo(Alphabet(c), MaxPowerLen) \cup ChainsUpTo(InfixToks(c), MaxPowerLen - 1)

InitPower ==
    /\ ops \in PowerCollections
    /\ input \in PowerInputs(ops)
    /\ todo = Runs
    /\ phase = "running"
    /\ pos = 0
    /\ stack = <<NewFrame(0, 0)>>
    /\ ret = NoRet
    /\ results = [r \in Drivers \X Modes |-> Pending]
    /\ log = <<>>
    /\ att = NoAtt

SpecPower == InitPower /\ [][Next]_vars

\* The two powers derived from an associativity.
Derived(a) == {left_power(a), right_power(a)}

\* Left(p): 2p and 2p+1; Right(p): 2p+1 and 2p; for every u16.
PowersExact ==
    \A p \in 0..U16Max :
        /\ left_power(Left(p)) = 2 * p /\ right_power(Left(p)) = 2 * p + 1
        /\ left_power(Right(p)) = 2 * p + 1 /\ right_power(Right(p)) = 2 * p

\* Every power derived from p + 1 is above every power derived from p, for
\* every u16 (and so, step by step, for any p < q).
AdjacentOrdered ==
    \A p \in 0..(U16Max - 1) :
        \A x \in Derived(Left(p)) \cup Derived(Right(p)) :
            \A y \in Derived(Left(p + 1)) \cup Derived(Right(p + 1)) : x < y

\* v fits 32 bits.
FitsU32(v) == v >= 0 /\ v \div 65536 < 65536

\* The associativities of the operators of the collection.
Assocs == {associativity(ops[k]) : k \in 1..N}

\* The threshold handed to the call of frame k by the operator waiting
\* below it, computed exactly.
ExactThreshold(k) ==
    LET a == associativity(ops[stack[k - 1].i])
    IN  IF stack[k - 1].pc = "prefix_wait" \/ a.assoc = "Right" THEN 2 * a.power
        ELSE 2 * a.power + 1

\* C12: left_power and right_power are 2p and 2p+1 (Left) and 2p+1 and 2p
\* (Right) for every 16-bit p; for p < q every power derived from q is above
\* every power derived from p; nothing wraps: the values are the exact ones,
\* fit 32 bits, and are the thresholds the driver hands to its calls.
C12_BindingPowers ==
    /\ PowersExact
    /\ AdjacentOrdered
    /\ \A a, b \in Assocs : a.power < b.power =>
            \A x \in Derived(a) : \A y \in Derived(b) : x < y
    /\ \A a \in Assocs : \A x \in Derived(a) : FitsU32(x) /\ x <= 2 * U16Max + 1
    /\ \A k \in 2..Len(stack) : stack[k].min_power = ExactThreshold(k)

\* The right operand of an operator of power 32768 is being parsed, in a
\* collection that also holds an operator of power 32767.
C12_Witness ==
    /\ Len(stack) = 2
    /\ stack[1].pc = "infix_wait" /\ associativity(ops[stack[1].i]) = Left(32768)
    /\ stack[2].min_power = 65537
    /\ \E a \in Assocs : a.power = 32767

(***************************************************************************)
(* The engine followed by end(), and the offset a failure is reported at   *)
(***************************************************************************)
\* tests::expr_parser
ExprParserOps ==
    <<infix(left(0), "+"), infix(left(0), "-"), infix(right(1), "*"), infix(right(1), "/")>>

\* A token that is neither a literal nor an operator.
Garbage == "?"

\* Longest input of these collections.
MaxErrLen == 4

ErrCollections == {ExprParserOps} \cup Mixed

ErrInputs(c) == SeqsUpTo(Alphabet(c) \cup {Garbage}, MaxErrLen)

InitErr ==
    /\ ops \in ErrCollections
    /\ input \in ErrInputs(ops)
    /\ todo = Runs
    /\ phase = "running"
    /\ pos = 0
    /\ stack = <<NewFrame(0, 0)>>
    /\ ret = NoRet
    /\ results = [r \in Drivers \X Modes |-> Pending]
    /\ log = <<>>
    /\ att = NoAtt

SpecErr == InitErr /\ [][Next]_vars

\* end(): succeeds at the end of the input only.
EndGo(p) == p >= Len(input)

\* The sub-parser of a logged attempt (an operator parser or the atom)
\* failed; it reports its failure at the offset where it was started.
AttemptFails(e) ==
    IF e[1] = "atom" THEN ~AtomGo("Check", e[3]).ok
    ELSE ~op_parser_go(ops[e[2]].tok, e[3]).ok

\* The offsets at which a sub-parser failed during the Emit run of driver d,
\* the end() that follows the engine included.
FailureOffsets(d) ==
    LET r == Res(d, "Emit")
    IN  {r.log[k][3] : k \in {j \in 1..Len(r.log) : AttemptFails(r.log[j])}}
        \cup (IF r.st = "ok" /\ ~EndGo(r.pos) THEN {r.pos} ELSE {})

Max(S) == CHOOSE x \in S : \A y \in S : x >= y

\* expr.then_ignore(end()): the value, or the failure that got furthest.
Complete(d) ==
    LET r == Res(d, "Emit")
    IN  IF r.st = "ok" /\ EndGo(r.pos) THEN [st |-> "ok", val |-> r.val]
        ELSE [st |-> "err", at |-> Max(FailureOffsets(d))]

Failure(p) == [st |-> "err", at |-> p]

\* Every operator of the collection is an infix operator.
InfixOnly == \A k \in 1..N : is_infix(ops[k])

\* The offsets at which the input leaves the pattern
\* operand (operator operand)*.
Deviations ==
    {k \in 0..(Len(input) - 1) :
        IF k % 2 = 0 THEN input[k + 1] # "n" ELSE input[k + 1] \notin InfixToks(ops)}

\* Where the pattern breaks: at the first such offset, or at the end of an
\* input that stops where an operand is due.
FirstBreak == IF Deviations = {} THEN Len(input) ELSE Min(Deviations)

\* C13: an infix-only engine followed by end() reports a failure at the
\* offset of the furthest sub-parser failure and returns no value: "1+" and
\* "1+?" at 2, "1?" at 1, "?" and "" at 0; on any input, at the first
\* offset where operands and operators stop alternating.
C13_ErrorOffsets ==
    \A d \in Drivers : (Parsed(d) /\ InfixOnly) =>
        /\ input \in {<<"n", "+">>, <<"n", "+", Garbage>>} => Complete(d) = Failure(2)
        /\ input = <<"n", Garbage>> => Complete(d) = Failure(1)
        /\ input \in {<<Garbage>>, <<>>} => Complete(d) = Failure(0)
        /\ IF Deviations = {} /\ Len(input) % 2 = 1
           THEN Complete(d) = [st |-> "ok", val |-> Res(d, "Emit").val]
           ELSE Complete(d) = Failure(FirstBreak)

\* "1+?" has been parsed by both drivers with tests::expr_parser: the
\* engine returned 1 at offset 1 and the failure is reported at offset 2.
C13_Witness ==
    /\ Done /\ ops = ExprParserOps /\ input = <<"n", "+", Garbage>>
    /\ \A d \in Drivers : Outcome(d, "Emit") = Ok(Lit(0), 1) /\ Complete(d) = Failure(2)

\* The continuation loop starts its next iteration: `continue` after a
\* postfix operator (tuple driver) or after an infix operator.
LoopRestarts ==
    \/ PostfixAttempt /\ driver = "tuple" /\ att'.ok
    \/ InfixReturn /\ ret.st = "ok"

\* C11: a parse ends on every input for every operator collection, because
\* every iteration of the continuation loop that does not leave the loop
\* starts the next one at a strictly greater input position.
C11_LoopAdvances ==
    [][LoopRestarts => stack'[Len(stack)].pre_op > Top.pre_op]_vars

(***************************************************************************)
(* The operator collections and inputs of the tests                        *)
(***************************************************************************)
\* tests::with_prefix_ops
WithPrefixOps ==
    <<prefix(2, "-"), prefix(2, "~"), prefix(1, "§"),
      infix(left(0), "+"), infix(left(0), "-"), infix(right(1), "*"), infix(right(1), "/")>>
PrefixTest == <<"-", "n", "+", "§", "~", "n", "*", "n">>

\* tests::with_postfix_ops
WithPostfixOps ==
    <<postfix(2, "!"), postfix(0, "$"),
      infix(left(1), "+"), infix(left(1), "-"), infix(right(2), "*"), infix(right(2), "/")>>
PostfixTest == <<"n", "+", "n", "!", "$", "*", "n">>

\* tests::with_pre_and_postfix_ops
WithPreAndPostfixOps ==
    <<prefix(4, "-"), prefix(4, "~"), prefix(1, "§"), postfix(5, "!"), postfix(0, "$"),
      infix(left(1), "+"), infix(left(1), "-"), infix(right(2), "*"), infix(right(2), "/")>>
PrePostTest == <<"§", "n", "+", "-", "~", "n", "!", "$", "*", "n">>

\* A prefix operator of any power with a lower and a higher infix operator,
\* and a prefix operator as the right operand of each.
PrefixInfix ==
    { <<prefix(p, "-"), infix(a, "+"), infix(b, "*")>> :
        p \in 0..2, a \in {left(0), right(0)}, b \in {left(1), right(1)} }
PrefixInfixTests ==
    { <<"n", "*", "-", "n", "+", "n">>, <<"n", "+", "-", "n", "*", "n">>,
      <<"n", "+", "-", "n", "+", "n">> }

TestCases ==
    {<<WithPrefixOps, PrefixTest>>, <<WithPostfixOps, PostfixTest>>,
     <<WithPreAndPostfixOps, PrePostTest>>}
    \cup (PrefixInfix \X PrefixInfixTests)
    \cup (UnaryPairs \X {<<"-", "n", "!">>})

\* The contiguous pieces of a token sequence.
Pieces(s) == {SubSeq(s, a, b) : a \in 1..(Len(s) + 1), b \in 0..Len(s)}

\* Besides the pieces of the test input, every input up to this length.
MaxTestLen == 3

InitTests ==
    /\ \E t \in TestCases :
         /\ ops = t[1]
         /\ input \in Pieces(t[2]) \cup SeqsUpTo(Alphabet(t[1]), MaxTestLen)
    /\ todo = Runs
    /\ phase = "running"
    /\ pos = 0
    /\ stack = <<NewFrame(0, 0)>>
    /\ ret = NoRet
    /\ results = [r \in Drivers \X Modes |-> Pending]
    /\ log = <<>>
    /\ att = NoAtt

SpecTests == InitTests /\ [][Next]_vars

\* The offset just after the last token folded into a value.
RECURSIVE End(_)
End(v) ==
    CASE v[1] = "lit" -> v[2] + 1
      [] v[1] = "un" -> IF End(v[4]) > v[3] + 1 THEN End(v[4]) ELSE v[3] + 1
      [] v[1] = "bin" -> End(v[5])

\* The token at offset p is that of a postfix or infix operator, and of none
\* that is at or above the threshold mp.
BelowThresholdAt(p, mp) ==
    /\ p < Len(input)
    /\ \E j \in 1..N : ~is_prefix(ops[j]) /\ ops[j].tok = input[p + 1]
    /\ \A j \in 1..N : ops[j].tok = input[p + 1] =>
           ~PostfixEligible(ops[j], mp) /\ ~InfixEligible(ops[j], mp)

\* (((1 + (2!))$) * 3)
PostfixTestValue ==
    Bin(5, 5, Un(2, 4, Bin(3, 1, Lit(0), Un(1, 3, Lit(2)))), Lit(6))

\* In the step taken: an operator attempted in a call is at or above the
\* threshold of the call; a call leaves the loop with the input just before
\* the operator below its threshold that follows what it folded; the input
\* of tests::with_postfix_ops gives the value of the test.  For driver d.
ThresholdsKept(d) ==
    /\ (att'.d = d /\ att'.kind = "postfix") =>
           2 * ops[att'.op].binding_power + 1 >= att'.mp
    /\ (att'.d = d /\ att'.kind = "infix") =>
           left_power(ops[att'.op].associativity) >= att'.mp
    /\ (driver = d /\ mode = "Emit" /\ LoopExit
          /\ BelowThresholdAt(End(Top.lhs), Top.min_power)) => pos' = End(Top.lhs)
    /\ (results'[<<d, "Emit">>].st # "pending" /\ ops = WithPostfixOps /\ input = PostfixTest) =>
           results'[<<d, "Emit">>].val = PostfixTestValue

\* C15: in a call with threshold min_power a postfix operator is attempted
\* only if 2*power+1 >= min_power and an infix operator only if its
\* left_power >= min_power; an operator below the threshold is not folded in
\* that call and the call leaves the input before its token; "1+2!$*3"
\* gives (((1 + (2!))$) * 3).
C15_Thresholds == [][\A d \in Drivers : ThresholdsKept(d)]_vars

\* The same, of the tuple driver alone.
Thresholds_TupleDriver == [][ThresholdsKept("tuple")]_vars

\* ((-1) + (§((~2) * 3)))
PrefixTestValue ==
    Bin(4, 2, Un(1, 0, Lit(1)), Un(3, 3, Bin(6, 6, Un(2, 4, Lit(5)), Lit(7))))

\* The first prefix operator of the collection, if any.
FirstPrefix == NextPrefix(1)

\* The input is x B -y A z: the prefix operator a as the right operand of
\* the infix operator B, followed by the infix operator A.
PrefixAfterInfix(a, A, B) ==
    /\ is_prefix(ops[a]) /\ is_infix(ops[A]) /\ is_infix(ops[B])
    /\ OwnToken(a) /\ OwnToken(A) /\ OwnToken(B)
    /\ input = <<"n", ops[B].tok, ops[a].tok, "n", ops[A].tok, "n">>

\* x B (-(y A z))
Absorbed(a, A, B) == Bin(B, 1, Lit(0), Un(a, 2, Bin(A, 4, Lit(3), Lit(5))))

\* C18: every call starts by attempting the prefix operators, whatever its
\* min_power; the operand of a prefix operator is parsed with threshold
\* 2*power; so a prefix operator standing as the right operand of an infix
\* operator B takes in a following operator A that its own threshold admits
\* even when B would have refused A; "-1+§~2*3" gives
\* ((-1) + (§((~2) * 3))).
C18_PrefixAnyPower ==
    [][ /\ (Running /\ ret.st = "none" /\ Top.pc = "operand" /\ Top.i = 1 /\ FirstPrefix <= N) =>
             log' = Append(log, <<"prefix", FirstPrefix, pos>>)
        /\ (PrefixAttempt /\ Len(stack') > Len(stack)) =>
             stack'[Len(stack')].min_power = 2 * ops[stack'[Len(stack)].i].binding_power
        /\ \A d \in Drivers : results'[<<d, "Emit">>].st # "pending" =>
             /\ \A a, A, B \in 1..N :
                  (/\ PrefixAfterInfix(a, A, B)
                   /\ left_power(associativity(ops[A])) >= 2 * ops[a].binding_power) =>
                      results'[<<d, "Emit">>].val = Absorbed(a, A, B)
             /\ (ops = WithPrefixOps /\ input = PrefixTest) =>
                  results'[<<d, "Emit">>].val = PrefixTestValue
      ]_vars

\* Both drivers have parsed "x * -y + z" with '-' at power 0 and '+' below
\* '*': the operand of '-' took in the '+' that '*' refuses.
C18_Witness ==
    /\ Done
    /\ ops = <<prefix(0, "-"), infix(left(0), "+"), infix(left(1), "*")>>
    /\ input = <<"n", "*", "-", "n", "+", "n">>
    /\ \A d \in Drivers : Outcome(d, "Emit") = Ok(Absorbed(1, 2, 3), 6)
    /\ left_power(associativity(ops[2])) < right_power(associativity(ops[3]))

\* C14: when a postfix operator has succeeded the driver holds the folded
\* lhs and is back at the first step of the continuation loop, with pre_op
\* taken just after the operator's token, so that nothing rewinds to before
\* it; in the tuple driver and in the list driver.
C14_PostfixRestarts ==
    [][(PostfixAttempt /\ att'.ok) =>
          /\ pos' > pos
          /\ stack'[Len(stack)] = EnterLoop(Top, att'.lhs1, pos')
          /\ stack'[Len(stack)].pre_op = pos'
      ]_vars

\* The same, of the tuple driver alone.
PostfixRestarts_TupleDriver ==
    [][(PostfixAttempt /\ att'.ok /\ driver = "tuple") =>
          /\ pos' > pos
          /\ stack'[Len(stack)] = EnterLoop(Top, att'.lhs1, pos')
          /\ stack'[Len(stack)].pre_op = pos'
      ]_vars

\* An eligible postfix operator among those declared before index j matches
\* the token at the cursor.
PostfixMatchesBefore(j) ==
    \E k \in 1..(j - 1) :
        /\ PostfixEligible(ops[k], Top.min_power)
        /\ op_parser_go(ops[k].tok, pos).ok

\* In the step taken by driver d: an infix operator is attempted only where
\* every eligible postfix operator has failed, a postfix operator only where
\* those declared before it have failed, and both at the checkpoint of the
\* iteration.
PostfixFirst(d) ==
    /\ (driver = d /\ InfixAttempt) => (~PostfixMatchesBefore(N + 1) /\ pos = Top.pre_op)
    /\ (driver = d /\ PostfixAttempt) =>
           (~PostfixMatchesBefore(NextPostfix(Top.i, Top.min_power)) /\ pos = Top.pre_op)

\* C16: in every iteration of the continuation loop the eligible postfix
\* operators are attempted, in declaration order, before any infix
\* operator, and an infix operator is attempted at a position only when no
\* postfix operator matched there, wherever the operators are declared.
C16_PostfixBeforeInfix == [][\A d \in Drivers : PostfixFirst(d)]_vars

\* The same, of the tuple driver alone.
PostfixBeforeInfix_TupleDriver == [][PostfixFirst("tuple")]_vars

\* The offsets of the tokens folded into a value, in the order in which the
\* value spells them: a prefix operator before its operand, a postfix
\* operator after it, an infix operator between its operands.
RECURSIVE Spelled(_)
Spelled(v) ==
    CASE v[1] = "lit" -> <<v[2]>>
      [] v[1] = "un" ->
            IF is_prefix(ops[v[2]]) THEN <<v[3]>> \o Spelled(v[4])
            ELSE Spelled(v[4]) \o <<v[3]>>
      [] v[1] = "bin" -> Spelled(v[4]) \o <<v[3]>> \o Spelled(v[5])

\* Every node of a value stands on its own token: a literal on "n", an
\* operator on the token of its operator parser.
RECURSIVE OnOwnTokens(_)
OnOwnTokens(v) ==
    CASE v[1] = "lit" -> input[v[2] + 1] = "n"
      [] v[1] = "un" -> input[v[3] + 1] = ops[v[2]].tok /\ OnOwnTokens(v[4])
      [] v[1] = "bin" ->
            input[v[3] + 1] = ops[v[2]].tok /\ OnOwnTokens(v[4]) /\ OnOwnTokens(v[5])

\* The offsets a, a + 1, ..., b - 1.
Span(a, b) == [k \in 1..(b - a) |-> a + k - 1]

\* A call of driver d that returns success (Emit) returns a value that
\* spells exactly the tokens between its starting offset and the offset it
\* leaves the input at.
ValueIsInput(d) ==
    (driver = d /\ mode = "Emit" /\ LoopExit) =>
        /\ Spelled(ret'.val) = Span(Top.pre_expr, pos')
        /\ OnOwnTokens(ret'.val)

\* C17: when a call returns success, the tokens between its starting
\* position and the final input position are exactly the atoms and operator
\* tokens folded into the returned value, in order: no folded operator has
\* its token left unconsumed, no consumed token is missing from the value.
C17_ValueMatchesInput == [][\A d \in Drivers : ValueIsInput(d)]_vars

\* The same, of the tuple driver alone.
ValueMatchesInput_TupleDriver == [][ValueIsInput("tuple")]_vars

\* For driver d: around one operand, the postfix operator b is folded inside
\* the prefix operator a unless its power is strictly lower; likewise the
\* infix operator that follows the operand.
SamePowerInside(d) ==
    Parsed(d) =>
      \A a, b \in 1..N : (is_prefix(ops[a]) /\ OwnToken(a) /\ OwnToken(b)) =>
        /\ (is_postfix(ops[b]) /\ input = <<ops[a].tok, "n", ops[b].tok>>) =>
             Value(d) = IF Power(b) >= Power(a) THEN Un(a, 0, Un(b, 2, Lit(1)))
                        ELSE Un(b, 2, Un(a, 0, Lit(1)))
        /\ (is_infix(ops[b]) /\ input = <<ops[a].tok, "n", ops[b].tok, "n">>) =>
             Value(d) = IF Power(b) >= Power(a) THEN Un(a, 0, Bin(b, 2, Lit(1), Lit(3)))
                        ELSE Bin(b, 2, Un(a, 0, Lit(1)), Lit(3))

\* C19: an operator of the same declared power as a prefix operator binds
\* inside the prefix: "-2!" = -(2!) for a postfix operator of that power,
\* "-a+b" = -(a+b) for an infix operator of that power, left or right; only
\* operators of strictly lower power apply outside the prefix.
C19_SamePowerInside == \A d \in Drivers : SamePowerInside(d)

\* The same, of the tuple driver alone.
SamePowerInside_TupleDriver == SamePowerInside("tuple")

\* l is a left-associative and r a right-associative infix operator of the
\* same declared power.
LeftAndRight(l, r) ==
    /\ associativity(ops[l]).assoc = "Left" /\ associativity(ops[r]).assoc = "Right"
    /\ Power(l) = Power(r)

\* C20: with a left-associative L and a right-associative R of the same
\* declared power a mixed chain nests to the right: "a L b R c" gives
\* L(a, R(b, c)) and "a R b L c" gives R(a, L(b, c)).
C20_MixedNestsRight ==
    \A d \in Drivers : Parsed(d) =>
      \A l, r \in InfixOps : LeftAndRight(l, r) =>
        /\ input = <<"n", ops[l].tok, "n", ops[r].tok, "n">> =>
             Outcome(d, "Emit") = Ok(Bin(l, 1, Lit(0), Bin(r, 3, Lit(2), Lit(4))), 5)
        /\ input = <<"n", ops[r].tok, "n", ops[l].tok, "n">> =>
             Outcome(d, "Emit") = Ok(Bin(r, 1, Lit(0), Bin(l, 3, Lit(2), Lit(4))), 5)

\* "a L b R c" has been parsed by both drivers, L and R of one power, R
\* declared first.
C20_Witness ==
    /\ Done
    /\ \E l, r \in InfixOps :
         /\ LeftAndRight(l, r) /\ r < l
         /\ input = <<"n", ops[l].tok, "n", ops[r].tok, "n">>
         /\ \A d \in Drivers : Res(d, "Emit").val = Bin(l, 1, Lit(0), Bin(r, 3, Lit(2), Lit(4)))

====
